---- MODULE Spec2Model ----
(***************************************************************************)
(* Model of src/src/mysql_vm_helpers.py: the MySQL helper class of the     *)
(* machine charm and its module-level helpers.                             *)
(*                                                                         *)
(* The program is single-threaded and synchronous: one call is in progress *)
(* at a time (pc says where it stands, "idle" when none is), every step is *)
(* one external command or one probe, and the host (data directory,        *)
(* staging state, socket file, snap, services, files) keeps its state from *)
(* one call to the next.                                                   *)
(***************************************************************************)
EXTENDS Integers, Sequences, FiniteSets

VARIABLES
    pc,           \* position of the call in progress, "idle" when none is
    lastOp,       \* the operation in progress, or the last one finished
    result,       \* how the last call ended ("none" while one is in progress)
    log,          \* the external commands issued by the current call, in order
    cause,        \* the exception a step of the current call raised, "none" if none
    dataDirMode,  \* permission mode of MYSQL_DATA_DIR
    dataDirOwner, \* owner of the files in MYSQL_DATA_DIR
    stage,        \* staging state of the backup artifact being restored
    sockFile,     \* whether MYSQLD_SOCK_FILE exists
    adminConn,    \* whether an administrative connection (mysqlsh) is possible
    checkPort,    \* check_port argument of the wait in progress
    elapsed,      \* time since the retry loop in progress started
    attemptNo,    \* attempt number of the retry loop in progress
    lastOutcome,  \* outcome of the latest attempt of the retry loop
    sockSeen,     \* whether an attempt of the wait in progress found the socket
    dataDirListing, \* MYSQL_DATA_DIR as os.listdir sees it: [exists, names]
    snapPresent,  \* whether the charmed-mysql snap is installed
    snapHeld,     \* whether the snap is held at its revision
    commonDir,    \* CHARMED_MYSQL_COMMON_DIRECTORY: "absent", or its owner
    aliasSet,     \* whether the alias mysql -> charmed-mysql.mysql is registered
    markerFile,   \* whether installed_by_mysql_server_charm exists
    mysqldActive, \* whether the service manager reports mysqld active
    exporterActive, \* whether the service manager reports mysqld-exporter active
    exporterCreds,  \* whether exporter.user / exporter.password are set on the snap
    svcEnabled,   \* per service, whether it is enabled on boot
    snapCall,     \* arguments of the latest snap_service_operation call
    backupDir,    \* whether the temporary backup directory exists
    procOut,      \* what the latest command of _execute_commands wrote
    execValue,    \* what _execute_commands returned, or its exception carries
    sqlFile,      \* the temporary alter-root-user.*.sql file: "absent",
                  \* "created", "written" or "chowned"
    cnfFile       \* the temporary z-custom-init-file.*.cnf file, likewise

installVars == << snapPresent, snapHeld, commonDir, aliasSet, markerFile >>
svcVars     == << mysqldActive, exporterActive, exporterCreds, svcEnabled >>
fileVars    == << sqlFile, cnfFile >>
execVars    == << backupDir, procOut, execValue, snapCall >>
otherVars   == << dataDirListing, installVars, svcVars, fileVars, execVars >>

vars == << pc, lastOp, result, log, cause, dataDirMode, dataDirOwner, stage,
           sockFile, adminConn, checkPort, elapsed, attemptNo, lastOutcome,
           sockSeen, otherVars >>

dataVars  == << dataDirMode, dataDirOwner, stage >>
hostVars  == << dataDirMode, dataDirOwner, stage, sockFile, adminConn >>
retryVars == << checkPort, elapsed, attemptNo, lastOutcome, sockSeen >>

(***************************************************************************)
(* Bounds and program constants                                            *)
(***************************************************************************)

\* longest time one readiness attempt may take (attempts take 0..MaxAttemptTime)
MaxAttemptTime == 2

\* wait_fixed(5) and stop_after_delay(120) of wait_until_mysql_connection
WaitInterval == 5
WaitDeadline == 120

\* stop_after_attempt(10) and wait_fixed(12) of is_volume_mounted
MountAttempts == 10
MountInterval == 12

\* exit codes of an external command: zero, or non-zero
ExitCodes == {0, 1}

ModeRestrictive == 750
ModeRelaxed     == 770

MYSQL_SYSTEM_USER == "snap_daemon"
ROOT_SYSTEM_USER  == "root"

\* the identity mysqld's own files have: user=snap_daemon, group=root
ServiceIdentity == [user |-> MYSQL_SYSTEM_USER, group |-> ROOT_SYSTEM_USER]

\* the identity the pipeline passes to every command: user=root, group=root
RootIdentity == [user |-> ROOT_SYSTEM_USER, group |-> ROOT_SYSTEM_USER]
\* no user= / group= argument: the identity of the calling process
AmbientIdentity == [user |-> "ambient", group |-> "ambient"]

Stages == {"None", "Downloaded", "Prepared", "Restored"}

\* minimal expected content for an integral mysqld data-dir
ExpectedContent ==
    { "mysql", "public_key.pem", "sys", "ca.pem", "client-key.pem", "mysql.ibd",
      "auto.cnf", "server-cert.pem", "ib_buffer_pool", "server-key.pem",
      "undo_002", "#innodb_redo", "undo_001", "#innodb_temp", "private_key.pem",
      "client-cert.pem", "ca-key.pem", "performance_schema" }

\* one issued command: what was run, under which identity, and its exit code
Cmd(name, id, rc) == [cmd |-> name, user |-> id.user, group |-> id.group, rc |-> rc]

(***************************************************************************)
(* subprocess and the command executor                                     *)
(***************************************************************************)

\* subprocess.run(..., check=check): CalledProcessError only when check is
\* set and the exit code is non-zero; otherwise a CompletedProcess is returned
SubprocessRun(check, rc) ==
    IF check /\ rc # 0 THEN "CalledProcessError" ELSE "completed"

\* MySQL._execute_commands: subprocess.run(check=True), CalledProcessError
\* converted to MySQLExecError
ExecuteCommands(rc) ==
    IF SubprocessRun(TRUE, rc) = "CalledProcessError" THEN "MySQLExecError" ELSE "ok"

\* chmod <target> <dir>: the mode changes only when the command succeeds
Chmod(mode, target, rc) == IF rc = 0 THEN target ELSE mode

\* chown -R <owner> <dir>: the owner changes only when the command succeeds
Chown(owner, target, rc) == IF rc = 0 THEN target ELSE owner

\* the backup tools succeed only on the staging state of the preceding stage
ToolExit(stagingPresent) == IF stagingPresent THEN ExitCodes ELSE ExitCodes \ {0}

(***************************************************************************)
(* Initial state                                                           *)
(***************************************************************************)

\* no call in progress, none made yet
CallInit ==
    /\ pc = "idle"
    /\ lastOp = "none"
    /\ result = "none"
    /\ log = << >>
    /\ cause = "none"
    /\ checkPort = FALSE
    /\ elapsed = 0
    /\ attemptNo = 0
    /\ lastOutcome = "none"
    /\ sockSeen = FALSE

\* an initialised data directory, mysqld not running, no backup staged
DataInit ==
    /\ dataDirMode = ModeRestrictive
    /\ dataDirOwner = MYSQL_SYSTEM_USER
    /\ stage = "None"
    /\ sockFile = FALSE
    /\ adminConn = FALSE
    /\ mysqldActive = FALSE
    /\ exporterActive = FALSE
    /\ exporterCreds = FALSE
    /\ svcEnabled = [mysqld |-> FALSE, exporter |-> FALSE]
    /\ backupDir = FALSE
    /\ execValue = << >>
    /\ snapCall = [operation |-> "none", service |-> "none"]
    /\ sqlFile = "absent"
    /\ cnfFile = "absent"

\* no command of _execute_commands has written anything
NoOutput == procOut = [stdout |-> << >>, stderr |-> << >>]

\* a host on which nothing was installed yet
NotInstalled ==
    /\ snapPresent = FALSE
    /\ snapHeld = FALSE
    /\ commonDir = "absent"
    /\ aliasSet = FALSE
    /\ markerFile = FALSE

Init ==
    /\ CallInit
    /\ DataInit
    /\ NotInstalled
    /\ NoOutput
    /\ dataDirListing = [exists |-> TRUE, names |-> ExpectedContent]

\* a call begins: nothing issued yet, no result yet, retry state cleared
Begin(op, first) ==
    /\ pc = "idle"
    /\ pc' = first
    /\ lastOp' = op
    /\ result' = "none"
    /\ log' = << >>
    /\ cause' = "none"
    /\ elapsed' = 0
    /\ attemptNo' = 0
    /\ lastOutcome' = "none"
    /\ sockSeen' = FALSE

\* a call ends with outcome r
Finish(r) ==
    /\ pc' = "idle"
    /\ result' = r

(***************************************************************************)
(* Backup/restore pipeline                                                 *)
(***************************************************************************)

\* MySQLBase.retrieve_backup_with_xbcloud: a failed download command is
\* reported as the download stage's error
BaseRetrieveBackupResult(exec) ==
    IF exec = "MySQLExecError" THEN "MySQLRetrieveBackupWithXBCloudError" ELSE "returned"

\* MySQLBase.prepare_backup_for_restore: a failed prepare command is reported
\* as the prepare stage's error
BasePrepareBackupResult(exec) ==
    IF exec = "MySQLExecError" THEN "MySQLPrepareBackupForRestoreError" ELSE "returned"

\* MySQLBase.restore_backup: a failed restore command is reported as the
\* restore stage's error
BaseRestoreBackupResult(exec) ==
    IF exec = "MySQLExecError" THEN "MySQLRestoreBackupError" ELSE "returned"

\* MySQL.retrieve_backup_with_xbcloud: the download, as root:root; nothing is
\* checked before the command is issued
RetrieveBackupWithXbcloud ==
    /\ pc = "idle"
    /\ \E rc \in ExitCodes :
        /\ log' = << Cmd("xbcloud get", RootIdentity, rc) >>
        /\ result' = BaseRetrieveBackupResult(ExecuteCommands(rc))
        /\ stage' = IF rc = 0 THEN "Downloaded" ELSE stage
    /\ lastOp' = "retrieve_backup_with_xbcloud"
    /\ pc' = "idle"
    /\ cause' = "none"
    /\ elapsed' = 0 /\ attemptNo' = 0 /\ lastOutcome' = "none" /\ sockSeen' = FALSE
    /\ UNCHANGED << dataDirMode, dataDirOwner, sockFile, adminConn, checkPort,
                    otherVars >>

\* MySQL.prepare_backup_for_restore: xtrabackup --prepare, as root:root;
\* nothing is checked before the command is issued
PrepareBackupForRestore ==
    /\ pc = "idle"
    /\ \E rc \in ToolExit(stage = "Downloaded") :
        /\ log' = << Cmd("xtrabackup --prepare", RootIdentity, rc) >>
        /\ result' = BasePrepareBackupResult(ExecuteCommands(rc))
        /\ stage' = IF rc = 0 THEN "Prepared" ELSE stage
    /\ lastOp' = "prepare_backup_for_restore"
    /\ pc' = "idle"
    /\ cause' = "none"
    /\ elapsed' = 0 /\ attemptNo' = 0 /\ lastOutcome' = "none" /\ sockSeen' = FALSE
    /\ UNCHANGED << dataDirMode, dataDirOwner, sockFile, adminConn, checkPort,
                    otherVars >>

\* the subprocess.run calls of restore_backup pass capture_output and text,
\* and no check=True
RestoreRunCheck == FALSE

\* the order of the statements of MySQL.restore_backup: the position that
\* follows position step when step does not raise
RestoreAfterSwapped(step) ==
    CASE step = "rb_chmod770" -> "rb_restore"
      [] step = "rb_restore"  -> "rb_chown"
      [] step = "rb_chown"    -> "rb_chmod750"
      [] step = "rb_chmod750" -> "idle"

RestoreAfter(step) ==
    CASE step = "rb_chmod770" -> "rb_restore"
      [] step = "rb_restore"  -> "rb_chmod750"
      [] step = "rb_chmod750" -> "rb_chown"
      [] step = "rb_chown"    -> "idle"

\* one statement of restore_backup ended: raise err, or go on to the next
\* statement, returning (stdout, stderr) after the last one
RestoreContinue(step, err) ==
    IF err # "none"
    THEN Finish(err)
    ELSE /\ pc' = RestoreAfter(step)
         /\ result' = IF RestoreAfter(step) = "idle" THEN "returned" ELSE "none"

\* a subprocess.run of restore_backup inside try/except CalledProcessError
RestoreRun(rc) ==
    IF SubprocessRun(RestoreRunCheck, rc) = "CalledProcessError"
    THEN "MySQLRestoreBackupError" ELSE "none"

\* MySQL.restore_backup is called
CallRestoreBackup ==
    /\ Begin("restore_backup", "rb_chmod770")
    /\ UNCHANGED << hostVars, checkPort, otherVars >>

\* chmod 770 MYSQL_DATA_DIR, as root:root
RestoreChmodRelax ==
    /\ pc = "rb_chmod770"
    /\ \E rc \in ExitCodes :
        /\ log' = Append(log, Cmd("chmod 770", RootIdentity, rc))
        /\ dataDirMode' = Chmod(dataDirMode, ModeRelaxed, rc)
        /\ RestoreContinue("rb_chmod770", RestoreRun(rc))
    /\ UNCHANGED << lastOp, cause, otherVars,
                    dataDirOwner, stage, sockFile, adminConn, retryVars >>

\* super().restore_backup(...): xtrabackup --move-back, as root:root; the
\* files it moves into the data directory belong to root
RestoreCommand ==
    /\ pc = "rb_restore"
    /\ \E rc \in ToolExit(stage = "Prepared") :
        /\ log' = Append(log, Cmd("xtrabackup --move-back", RootIdentity, rc))
        /\ stage' = IF rc = 0 THEN "Restored" ELSE stage
        /\ dataDirOwner' = IF rc = 0 THEN ROOT_SYSTEM_USER ELSE dataDirOwner
        /\ LET r == BaseRestoreBackupResult(ExecuteCommands(rc))
           IN  RestoreContinue("rb_restore", IF r = "returned" THEN "none" ELSE r)
    /\ UNCHANGED << lastOp, cause, otherVars,
                    dataDirMode, sockFile, adminConn, retryVars >>

\* chmod 750 MYSQL_DATA_DIR, as root:root
RestoreChmodRevert ==
    /\ pc = "rb_chmod750"
    /\ \E rc \in ExitCodes :
        /\ log' = Append(log, Cmd("chmod 750", RootIdentity, rc))
        /\ dataDirMode' = Chmod(dataDirMode, ModeRestrictive, rc)
        /\ RestoreContinue("rb_chmod750", RestoreRun(rc))
    /\ UNCHANGED << lastOp, cause, otherVars,
                    dataDirOwner, stage, sockFile, adminConn, retryVars >>

\* chown -R snap_daemon:root MYSQL_DATA_DIR, as root:root
RestoreChown ==
    /\ pc = "rb_chown"
    /\ \E rc \in ExitCodes :
        /\ log' = Append(log, Cmd("chown -R snap_daemon:root", RootIdentity, rc))
        /\ dataDirOwner' = Chown(dataDirOwner, MYSQL_SYSTEM_USER, rc)
        /\ RestoreContinue("rb_chown", RestoreRun(rc))
    /\ UNCHANGED << lastOp, cause, otherVars,
                    dataDirMode, stage, sockFile, adminConn, retryVars >>

(***************************************************************************)
(* Retry policies (tenacity) and is_volume_mounted                         *)
(***************************************************************************)

\* what a retry loop raises when its stop condition holds after a failed
\* attempt: the attempt's own error under reraise=True, RetryError otherwise
RetryGiveUpWrapped(reraise, lastError) == "RetryError"

RetryGiveUp(reraise, lastError) == IF reraise THEN lastError ELSE "RetryError"

\* stop_after_attempt(10): stop once the attempt number has reached 10
StopAfterAttemptOffByOne(n) == n > MountAttempts

StopAfterAttempt(n) == n >= MountAttempts

\* is_volume_mounted: except RetryError: return False; otherwise return True
VolumeMountedResult(raised) == IF raised = "RetryError" THEN "False" ELSE raised

\* is_volume_mounted is called
CallIsVolumeMounted ==
    /\ Begin("is_volume_mounted", "ivm_probe")
    /\ UNCHANGED << hostVars, checkPort, otherVars >>

\* one attempt: mountpoint -q CHARMED_MYSQL_COMMON_DIRECTORY (check_call)
VolumeProbe ==
    /\ pc = "ivm_probe"
    /\ attemptNo' = attemptNo + 1
    /\ \E rc \in ExitCodes :
        /\ log' = Append(log, Cmd("mountpoint -q", AmbientIdentity, rc))
        /\ lastOutcome' = SubprocessRun(TRUE, rc)
        /\ IF SubprocessRun(TRUE, rc) = "completed"
           THEN Finish("True")
           ELSE IF StopAfterAttempt(attemptNo')
                THEN Finish(VolumeMountedResult(RetryGiveUp(FALSE, "CalledProcessError")))
                ELSE pc' = "ivm_sleep" /\ result' = "none"
    /\ UNCHANGED << lastOp, cause, otherVars,
                    hostVars, checkPort, elapsed, sockSeen >>

\* wait_fixed(12) between two attempts
VolumeSleep ==
    /\ pc = "ivm_sleep"
    /\ pc' = "ivm_probe"
    /\ elapsed' = elapsed + MountInterval
    /\ UNCHANGED << lastOp, cause, otherVars,
                    result, log, hostVars, checkPort, attemptNo, lastOutcome,
                    sockSeen >>

PipelineNext ==
    \/ CallIsVolumeMounted
    \/ VolumeProbe
    \/ VolumeSleep
    \/ RetrieveBackupWithXbcloud
    \/ PrepareBackupForRestore
    \/ CallRestoreBackup
    \/ RestoreChmodRelax
    \/ RestoreCommand
    \/ RestoreChmodRevert
    \/ RestoreChown

PipelineSpec == Init /\ [][PipelineNext]_vars

(***************************************************************************)
(* Readiness wait: wait_until_mysql_connection                             *)
(***************************************************************************)

\* @retry(reraise=True, ...)
WaitReraise == TRUE

\* stop_after_delay(120): stop once 120 have passed since the first attempt
\* started, measured when an attempt has just failed
StopAfterFirstAttempt(sinceStart) == TRUE

StopAfterDelay(sinceStart) == sinceStart >= WaitDeadline

\* the body of wait_until_mysql_connection: one attempt, given whether the
\* socket file exists, check_port, and whether check_mysqlsh_connection()
\* would succeed
ConnectionAttemptNoProbe(sock, cp, conn) ==
    IF ~sock THEN "socket_absent" ELSE "ok"

ConnectionAttempt(sock, cp, conn) ==
    IF ~sock THEN "socket_absent"
    ELSE IF cp /\ ~conn THEN "probe_failed"
    ELSE "ok"

\* what an attempt raises
AttemptError(outcome) ==
    IF outcome = "ok" THEN "none" ELSE "MySQLServiceNotRunningError"

\* where a wait goes when it ends: to the caller's statement after the call,
\* or back to idle when the wait was called on its own
WaitCaller(op) ==
    CASE op = "reset_root_password_and_start_mysqld" -> "rr_after_wait"
      [] op \in {"start_mysqld", "restart_mysqld"}    -> "sm_after_wait"
      [] OTHER                                        -> "idle"

\* the wait ends with r: "returned", or the exception it raises
WaitReturn(r) ==
    /\ cause' = IF r = "returned" THEN "none" ELSE r
    /\ IF WaitCaller(lastOp) = "idle"
       THEN Finish(r)
       ELSE pc' = WaitCaller(lastOp) /\ result' = "none"

\* wait_until_mysql_connection(check_port) is called
CallWaitUntilMysqlConnection ==
    /\ Begin("wait_until_mysql_connection", "wait_attempt")
    /\ checkPort' \in BOOLEAN
    /\ UNCHANGED << hostVars, otherVars >>

\* one attempt, taking d units of time; on failure the retry policy decides
\* between giving up and sleeping
WaitAttempt ==
    /\ pc = "wait_attempt"
    /\ attemptNo' = attemptNo + 1
    /\ sockSeen' = (sockSeen \/ sockFile)
    /\ lastOutcome' = ConnectionAttempt(sockFile, checkPort, adminConn)
    /\ \E d \in 0..MaxAttemptTime : elapsed' = elapsed + d
    /\ IF AttemptError(lastOutcome') = "none"
       THEN WaitReturn("returned")
       ELSE IF StopAfterDelay(elapsed')
            THEN WaitReturn(RetryGiveUp(WaitReraise, AttemptError(lastOutcome')))
            ELSE pc' = "wait_sleep" /\ result' = "none" /\ cause' = cause
    /\ UNCHANGED << lastOp, otherVars, log, hostVars, checkPort >>

\* wait_fixed(5) between two attempts
WaitSleep ==
    /\ pc = "wait_sleep"
    /\ pc' = "wait_attempt"
    /\ elapsed' = elapsed + WaitInterval
    /\ UNCHANGED << lastOp, cause, otherVars,
                    result, log, hostVars, checkPort, attemptNo, lastOutcome,
                    sockSeen >>

\* mysqld creates or removes its socket file (it starts and stops on its own
\* schedule, also while a wait is in progress)
EnvSocket ==
    /\ sockFile' = ~sockFile
    /\ UNCHANGED << pc, lastOp, result, log, cause, otherVars,
                    dataVars, adminConn, retryVars >>

\* the administrative connection becomes possible or impossible (credentials
\* are configured elsewhere, the server comes up or goes down)
EnvAdminConn ==
    /\ adminConn' = ~adminConn
    /\ UNCHANGED << pc, lastOp, result, log, cause, otherVars,
                    dataVars, sockFile, retryVars >>

ServiceNext ==
    \/ CallWaitUntilMysqlConnection
    \/ WaitAttempt
    \/ WaitSleep
    \/ EnvSocket
    \/ EnvAdminConn

ServiceSpec == Init /\ [][ServiceNext]_vars

\* the caller's thread runs the retry loop to its end: an attempt that is due
\* is made, and a sleep that has begun ends
ServiceFairSpec == ServiceSpec /\ WF_vars(WaitAttempt) /\ WF_vars(WaitSleep)

(***************************************************************************)
(* Data directory validation: is_data_dir_initialised                      *)
(***************************************************************************)

\* how many names a listing may differ in from the full required set, or
\* from the empty directory
MaxDiff == 2

\* names a data directory may hold beside the required ones
ExtraNames == { "ibdata1", "binlog.index" }

\* the subsets of S of at most k elements
RECURSIVE SubsetsUpTo(_, _)
SubsetsUpTo(S, k) ==
    IF k = 0 THEN { {} }
    ELSE LET smaller == SubsetsUpTo(S, k - 1)
         IN  smaller \cup { p \cup {x} : p \in smaller, x \in S }

\* the directories the check is applied to: absent; the full required set
\* less a few names, with any extra names; a few names only
DataDirListings ==
    { [exists |-> FALSE, names |-> {}] }
    \cup { [exists |-> TRUE, names |-> (ExpectedContent \ gone) \cup extra] :
              gone \in SubsetsUpTo(ExpectedContent, MaxDiff),
              extra \in SUBSET ExtraNames }
    \cup { [exists |-> TRUE, names |-> few] :
              few \in SubsetsUpTo(ExpectedContent \cup ExtraNames, MaxDiff) }

\* MySQL.is_data_dir_initialised: os.listdir raises FileNotFoundError on a
\* missing directory (caught: False); otherwise expected_content <= set(content)
IsDataDirInitialisedReversed(dir) ==
    IF ~dir.exists THEN "False"
    ELSE IF dir.names \subseteq ExpectedContent THEN "True" ELSE "False"

IsDataDirInitialised(dir) ==
    IF ~dir.exists THEN "False"
    ELSE IF ExpectedContent \subseteq dir.names THEN "True" ELSE "False"

\* is_data_dir_initialised() is called and returns
CallIsDataDirInitialised ==
    /\ pc = "idle"
    /\ pc' = "idle"
    /\ lastOp' = "is_data_dir_initialised"
    /\ log' = << >>
    /\ cause' = IF dataDirListing.exists THEN "none" ELSE "FileNotFoundError"
    /\ result' = IsDataDirInitialised(dataDirListing)
    /\ elapsed' = 0 /\ attemptNo' = 0 /\ lastOutcome' = "none" /\ sockSeen' = FALSE
    /\ UNCHANGED << hostVars, checkPort, otherVars >>

\* a host on which install_and_configure_mysql_dependencies has succeeded
Installed ==
    /\ snapPresent = TRUE
    /\ snapHeld = TRUE
    /\ commonDir = MYSQL_SYSTEM_USER
    /\ aliasSet = TRUE
    /\ markerFile = TRUE

DataDirInit ==
    /\ CallInit
    /\ DataInit
    /\ Installed
    /\ NoOutput
    /\ dataDirListing \in DataDirListings

DataDirNext == CallIsDataDirInitialised

DataDirSpec == DataDirInit /\ [][DataDirNext]_vars

(***************************************************************************)
(* Backup capture and staging cleanup                                      *)
(***************************************************************************)

\* exit codes of a staging cleanup command: deleting a directory that is not
\* there deletes nothing and succeeds
DeleteExitStrict(present) == IF present THEN ExitCodes ELSE ExitCodes \ {0}

DeleteExit(present) == IF present THEN ExitCodes ELSE {0}

\* MySQLBase: a failed command of a stage is reported as that stage's error
BaseStageResult(exec, stageError) ==
    IF exec = "MySQLExecError" THEN stageError ELSE "returned"

\* an operation of the pipeline that is one command: the parts every such
\* operation shares
PipelineCall(op) ==
    /\ pc = "idle"
    /\ pc' = "idle"
    /\ lastOp' = op
    /\ cause' = "none"
    /\ elapsed' = 0 /\ attemptNo' = 0 /\ lastOutcome' = "none" /\ sockSeen' = FALSE
    /\ UNCHANGED << dataDirMode, dataDirOwner, sockFile, adminConn, checkPort,
                    installVars, svcVars, fileVars, procOut, execValue, snapCall >>

\* MySQL.execute_backup_commands: xtrabackup streamed to xbcloud, as
\* root:root; the temporary backup directory it creates stays behind
ExecuteBackupCommands ==
    /\ PipelineCall("execute_backup_commands")
    /\ \E rc \in ExitCodes :
        /\ log' = << Cmd("xtrabackup --backup | xbcloud put", RootIdentity, rc) >>
        /\ result' = BaseStageResult(ExecuteCommands(rc), "MySQLExecuteBackupCommandsError")
        /\ IF rc = 0 THEN backupDir' = TRUE ELSE backupDir' \in {backupDir, TRUE}
    /\ UNCHANGED << stage, dataDirListing >>

\* MySQL.delete_temp_backup_directory: the temporary backup directory is
\* deleted, as root:root
DeleteTempBackupDirectory ==
    /\ PipelineCall("delete_temp_backup_directory")
    /\ \E rc \in DeleteExit(backupDir) :
        /\ log' = << Cmd("find -delete backup staging", RootIdentity, rc) >>
        /\ result' = BaseStageResult(ExecuteCommands(rc), "MySQLDeleteTempBackupDirectoryError")
        /\ backupDir' = (backupDir /\ rc # 0)
    /\ UNCHANGED << stage, dataDirListing >>

\* MySQL.empty_data_files: the content of MYSQL_DATA_DIR is deleted, as
\* root:root
EmptyDataFiles ==
    /\ PipelineCall("empty_data_files")
    /\ \E rc \in ExitCodes :
        /\ log' = << Cmd("find -delete data files", RootIdentity, rc) >>
        /\ result' = BaseStageResult(ExecuteCommands(rc), "MySQLEmptyDataFilesError")
        /\ dataDirListing' = IF rc = 0 /\ dataDirListing.exists
                             THEN [exists |-> TRUE, names |-> {}]
                             ELSE dataDirListing
    /\ UNCHANGED << stage, backupDir >>

\* MySQL.delete_temp_restore_directory: the restore staging directory is
\* deleted, as root:root
DeleteTempRestoreDirectory ==
    /\ PipelineCall("delete_temp_restore_directory")
    /\ \E rc \in DeleteExit(stage # "None") :
        /\ log' = << Cmd("find -delete restore staging", RootIdentity, rc) >>
        /\ result' = BaseStageResult(ExecuteCommands(rc), "MySQLDeleteTempRestoreDirectoryError")
        /\ stage' = IF rc = 0 THEN "None" ELSE stage
    /\ UNCHANGED << backupDir, dataDirListing >>

\* the operations of the backup/restore pipeline
StagingNext ==
    \/ ExecuteBackupCommands
    \/ DeleteTempBackupDirectory
    \/ RetrieveBackupWithXbcloud
    \/ PrepareBackupForRestore
    \/ EmptyDataFiles
    \/ CallRestoreBackup
    \/ RestoreChmodRelax
    \/ RestoreCommand
    \/ RestoreChmodRevert
    \/ RestoreChown
    \/ DeleteTempRestoreDirectory

StagingSpec == Init /\ [][StagingNext]_vars

(***************************************************************************)
(* The command executor: _execute_commands                                 *)
(***************************************************************************)

\* longest text a command writes to stdout or to stderr
MaxOutLen == 3

\* the characters of a command's output: whitespace, and anything else
Whitespace == { " ", "\n" }
Chars      == Whitespace \cup { "x" }

\* the texts of at most n characters
Texts(n) == UNION { [1..k -> Chars] : k \in 0..n }

\* str.strip(): leading and trailing whitespace removed
RECURSIVE LStrip(_)
LStrip(s) == IF s = << >> \/ Head(s) \notin Whitespace THEN s ELSE LStrip(Tail(s))

RECURSIVE RStrip(_)
RStrip(s) ==
    IF s = << >> \/ s[Len(s)] \notin Whitespace THEN s
    ELSE RStrip(SubSeq(s, 1, Len(s) - 1))

StripLeadingOnly(s) == LStrip(s)

Strip(s) == RStrip(LStrip(s))

\* lines 521-524: (stdout.strip(), stderr.strip()) is returned, or
\* MySQLExecError(e.stderr) raised
ExecuteCommandsValue(rc, out) ==
    IF ExecuteCommands(rc) = "ok"
    THEN << Strip(out.stdout), Strip(out.stderr) >>
    ELSE << out.stderr >>

\* line 510: with bash=True the commands are joined into one bash -c command
ExecCommandLine(bash) ==
    IF bash THEN "bash -c set -o pipefail; commands" ELSE "commands"

\* user= and group= of subprocess.run: None leaves the caller's identity
ExecIdentities == { RootIdentity, AmbientIdentity }

\* _execute_commands(commands, bash, user, group) is called and returns or
\* raises; the command writes procOut and exits with rc
CallExecuteCommands ==
    /\ pc = "idle"
    /\ pc' = "idle"
    /\ lastOp' = "_execute_commands"
    /\ elapsed' = 0 /\ attemptNo' = 0 /\ lastOutcome' = "none" /\ sockSeen' = FALSE
    /\ \E rc \in ExitCodes, bash \in BOOLEAN, id \in ExecIdentities :
         /\ log' = << Cmd(ExecCommandLine(bash), id, rc) >>
         /\ cause' = SubprocessRun(TRUE, rc)
         /\ result' = IF ExecuteCommands(rc) = "ok" THEN "returned" ELSE ExecuteCommands(rc)
         /\ execValue' = ExecuteCommandsValue(rc, procOut)
    /\ UNCHANGED << hostVars, checkPort, dataDirListing, installVars, svcVars,
                    fileVars, backupDir, procOut, snapCall >>

\* the command's output is any pair of texts
ExecInit ==
    /\ CallInit
    /\ DataInit
    /\ Installed
    /\ dataDirListing = [exists |-> TRUE, names |-> ExpectedContent]
    /\ procOut \in [stdout : Texts(MaxOutLen), stderr : Texts(MaxOutLen)]

ExecNext == CallExecuteCommands

ExecSpec == ExecInit /\ [][ExecNext]_vars

(***************************************************************************)
(* Installation: install_and_configure_mysql_dependencies                  *)
(***************************************************************************)

\* line 155: the snap is present and was not installed by this charm
InstallPreconditionIgnored(present, marker) == FALSE

InstallPrecondition(present, marker) == present /\ ~marker

\* the except clauses of lines 189-196: SnapError is re-raised, anything else
\* raised inside the try block (CalledProcessError, SnapNotFoundError, ...)
\* becomes MySQLInstallError
InstallErrorReraiseAll(exc) == exc

InstallError(exc) == IF exc = "SnapError" THEN "SnapError" ELSE "MySQLInstallError"

\* line 188: installed_by_mysql_server_file.touch(exist_ok=True)
TouchMarkerSkipped(marker) == marker

TouchMarker(marker) == TRUE

\* what a failed snap installation raises (docstring, line 144)
SnapInstallErrors == { "SnapError", "SnapNotFoundError" }

\* owners the common directory can have when the snap creates it
CommonDirOwners == { ROOT_SYSTEM_USER, MYSQL_SYSTEM_USER }

\* a step inside the try block ends: the next step is due, or exc is raised
InstallStep(next, exc) ==
    IF exc = "none"
    THEN pc' = next /\ result' = "none" /\ cause' = "none"
    ELSE Finish(InstallError(exc)) /\ cause' = exc

\* what no step of the installation touches
installFrame == << lastOp, hostVars, retryVars, dataDirListing, svcVars, fileVars,
                   execVars >>

\* install_and_configure_mysql_dependencies() is called; lines 147-148 fetch the
\* snap's cache entry
CallInstall ==
    /\ Begin("install_and_configure_mysql_dependencies", "in_precondition")
    /\ UNCHANGED << hostVars, checkPort, otherVars >>

\* lines 152-161: raise Exception, outside the try block, when the snap is
\* present without the marker file
InstallCheckPrecondition ==
    /\ pc = "in_precondition"
    /\ IF InstallPrecondition(snapPresent, markerFile)
       THEN Finish("Exception") /\ cause' = "Exception"
       ELSE pc' = "in_ensure" /\ result' = "none" /\ cause' = "none"
    /\ UNCHANGED << log, installVars, installFrame >>

\* line 168: ensure(Present, revision) installs the snap when it is not present
InstallEnsure ==
    /\ pc = "in_ensure"
    /\ IF snapPresent
       THEN /\ InstallStep("in_hold", "none")
            /\ UNCHANGED << log, snapPresent >>
       ELSE \E rc \in ExitCodes :
            /\ log' = Append(log, Cmd("snap install", AmbientIdentity, rc))
            /\ snapPresent' = (rc = 0)
            /\ IF rc = 0
               THEN InstallStep("in_hold", "none")
               ELSE \E exc \in SnapInstallErrors : InstallStep("in_hold", exc)
    /\ UNCHANGED << snapHeld, commonDir, aliasSet, markerFile, installFrame >>

\* lines 169-171: hold the snap at its revision unless it is held already
InstallHold ==
    /\ pc = "in_hold"
    /\ IF snapHeld
       THEN /\ InstallStep("in_common_dir", "none")
            /\ UNCHANGED << log, snapHeld >>
       ELSE \E rc \in ExitCodes :
            /\ log' = Append(log, Cmd("snap refresh --hold", AmbientIdentity, rc))
            /\ snapHeld' = (rc = 0)
            /\ InstallStep("in_common_dir", IF rc = 0 THEN "none" ELSE "SnapError")
    /\ UNCHANGED << snapPresent, commonDir, aliasSet, markerFile, installFrame >>

\* lines 174-178: mysqlsh --help creates the common directory when it is
\* missing (subprocess.check_call)
InstallCommonDir ==
    /\ pc = "in_common_dir"
    /\ IF commonDir # "absent"
       THEN /\ InstallStep("in_chown", "none")
            /\ UNCHANGED << log, commonDir >>
       ELSE \E rc \in ExitCodes :
            /\ log' = Append(log, Cmd("charmed-mysql.mysqlsh --help", AmbientIdentity, rc))
            /\ IF rc = 0
               THEN \E o \in CommonDirOwners : commonDir' = o
               ELSE commonDir' = commonDir
            /\ InstallStep("in_chown", IF SubprocessRun(TRUE, rc) = "completed"
                                       THEN "none" ELSE "CalledProcessError")
    /\ UNCHANGED << snapPresent, snapHeld, aliasSet, markerFile, installFrame >>

\* lines 182-184: os.system("chown -R ..."), whose exit status is not read
InstallChown ==
    /\ pc = "in_chown"
    /\ IF commonDir = MYSQL_SYSTEM_USER
       THEN UNCHANGED << log, commonDir >>
       ELSE \E rc \in ExitCodes :
            /\ log' = Append(log, Cmd("chown -R common", AmbientIdentity, rc))
            /\ commonDir' = IF rc = 0 THEN MYSQL_SYSTEM_USER ELSE commonDir
    /\ InstallStep("in_alias", "none")
    /\ UNCHANGED << snapPresent, snapHeld, aliasSet, markerFile, installFrame >>

\* line 186: subprocess.run(["snap", "alias", ...], check=True)
InstallAlias ==
    /\ pc = "in_alias"
    /\ \E rc \in ExitCodes :
         /\ log' = Append(log, Cmd("snap alias", AmbientIdentity, rc))
         /\ aliasSet' = (aliasSet \/ rc = 0)
         /\ InstallStep("in_touch", IF SubprocessRun(TRUE, rc) = "completed"
                                    THEN "none" ELSE "CalledProcessError")
    /\ UNCHANGED << snapPresent, snapHeld, commonDir, markerFile, installFrame >>

\* line 188: the marker file is written and the call returns
InstallTouch ==
    /\ pc = "in_touch"
    /\ markerFile' = TouchMarker(markerFile)
    /\ Finish("returned")
    /\ UNCHANGED << log, cause, snapPresent, snapHeld, commonDir, aliasSet, installFrame >>

(***************************************************************************)
(* snap services                                                           *)
(***************************************************************************)

ServiceOperations == { "restart", "start", "stop" }

\* snap_service_operation issues the operation only when the operation is a
\* known one and the snap is present
SnapServiceIssues(operation, present) ==
    operation \in ServiceOperations /\ present

\* snap_service_operation: SnapServiceOperationError for an unknown operation,
\* for a snap that is not present, and for a SnapError of the operation
SnapServiceOperation(operation, present, rc) ==
    IF ~SnapServiceIssues(operation, present) THEN "SnapServiceOperationError"
    ELSE IF rc # 0 THEN "SnapServiceOperationError"
    ELSE "done"

\* start(services, enable=True) and stop(services, disable=True): a start
\* that succeeds enables the service on boot and a stop that succeeds disables
\* it; restart leaves the setting alone
SnapEnabledAfter(operation, service, enabled, out) ==
    IF out # "done" \/ operation = "restart" THEN enabled
    ELSE [enabled EXCEPT ![service] = (operation = "start")]

(***************************************************************************)
(* The metrics exporter: connect_mysql_exporter                            *)
(***************************************************************************)

\* the except clause of lines 607-609: only snap.SnapError is converted
ExporterErrorUnconverted(exc) == exc

ExporterError(exc) ==
    IF exc = "SnapError" THEN "MySQLExporterConnectError" ELSE exc

\* what no exporter step touches
exporterFrame == << lastOp, hostVars, retryVars, dataDirListing, installVars,
                    fileVars, execVars, mysqldActive >>

\* connect_mysql_exporter() is called; lines 593-594 fetch the snap's entry
CallConnectMysqlExporter ==
    /\ Begin("connect_mysql_exporter", "ex_set")
    /\ UNCHANGED << hostVars, checkPort, otherVars >>

\* lines 598-603: mysqld_snap.set({exporter.user, exporter.password}); it
\* cannot succeed on a snap that is not installed
ExporterSet ==
    /\ pc = "ex_set"
    /\ \E rc \in (IF snapPresent THEN ExitCodes ELSE {1}) :
         /\ log' = Append(log, Cmd("snap set exporter", AmbientIdentity, rc))
         /\ exporterCreds' = (exporterCreds \/ rc = 0)
         /\ IF rc = 0
            THEN pc' = "ex_start" /\ result' = "none" /\ cause' = "none"
            ELSE Finish(ExporterError("SnapError")) /\ cause' = "SnapError"
    /\ UNCHANGED << exporterActive, svcEnabled, exporterFrame >>

\* lines 604-606: snap_service_operation(..., "start")
ExporterStart ==
    /\ pc = "ex_start"
    /\ \E rc \in ExitCodes :
         LET out == SnapServiceOperation("start", snapPresent, rc)
         IN  /\ log' = IF SnapServiceIssues("start", snapPresent)
                       THEN Append(log, Cmd("snap start mysqld-exporter", AmbientIdentity, rc))
                       ELSE log
             /\ exporterActive' = (exporterActive \/ out = "done")
             /\ svcEnabled' = SnapEnabledAfter("start", "exporter", svcEnabled, out)
             /\ IF out = "done"
                THEN Finish("returned") /\ cause' = "none"
                ELSE Finish(ExporterError(out)) /\ cause' = out
    /\ UNCHANGED << exporterCreds, exporterFrame >>

\* stop_mysql_exporter() is called
CallStopMysqlExporter ==
    /\ Begin("stop_mysql_exporter", "ex_stop")
    /\ UNCHANGED << hostVars, checkPort, otherVars >>

\* the exporter methods of class MySQL
ExporterMethods ==
    { "connect_mysql_exporter", "stop_mysql_exporter", "restart_mysql_exporter" }

\* self.<name>: the method of that name, or AttributeError when the class has
\* none of that name
ResolveAttribute(name) ==
    IF name \in ExporterMethods THEN name ELSE "AttributeError"

\* lines 614-619: snap_service_operation(..., "stop"); inside
\* restart_mysql_exporter, line 624 follows a stop that returned
ExporterStop ==
    /\ pc = "ex_stop"
    /\ \E rc \in ExitCodes :
         LET out == SnapServiceOperation("stop", snapPresent, rc)
         IN  /\ log' = IF SnapServiceIssues("stop", snapPresent)
                       THEN Append(log, Cmd("snap stop mysqld-exporter", AmbientIdentity, rc))
                       ELSE log
             /\ exporterActive' = (exporterActive /\ out # "done")
             /\ svcEnabled' = SnapEnabledAfter("stop", "exporter", svcEnabled, out)
             /\ IF out # "done"
                THEN Finish(ExporterError(out)) /\ cause' = out
                ELSE IF lastOp # "restart_mysql_exporter"
                     THEN Finish("returned") /\ cause' = "none"
                     ELSE IF ResolveAttribute("_connect_mysql_exporter") = "AttributeError"
                          THEN Finish("AttributeError") /\ cause' = "AttributeError"
                          ELSE pc' = "ex_set" /\ result' = "none" /\ cause' = "none"
    /\ UNCHANGED << exporterCreds, exporterFrame >>

\* restart_mysql_exporter() is called: line 623 looks up
\* self._stop_mysql_exporter
RestartMysqlExporter ==
    /\ pc = "idle"
    /\ lastOp' = "restart_mysql_exporter"
    /\ log' = << >>
    /\ elapsed' = 0 /\ attemptNo' = 0 /\ lastOutcome' = "none" /\ sockSeen' = FALSE
    /\ IF ResolveAttribute("_stop_mysql_exporter") = "AttributeError"
       THEN Finish("AttributeError") /\ cause' = "AttributeError"
       ELSE pc' = "ex_stop" /\ result' = "none" /\ cause' = "none"
    /\ UNCHANGED << hostVars, checkPort, otherVars >>

(***************************************************************************)
(* snap_service_operation called on its own                                *)
(***************************************************************************)

Services == { "mysqld", "exporter" }

\* operation names a caller may pass: the three known ones, and another
OperationNames == ServiceOperations \cup { "reload" }

\* the request made to the service manager
SnapCommand(operation, service) ==
    CASE operation = "start"   /\ service = "mysqld"   -> "snap start mysqld"
      [] operation = "stop"    /\ service = "mysqld"   -> "snap stop mysqld"
      [] operation = "restart" /\ service = "mysqld"   -> "snap restart mysqld"
      [] operation = "start"   /\ service = "exporter" -> "snap start mysqld-exporter"
      [] operation = "stop"    /\ service = "exporter" -> "snap stop mysqld-exporter"
      [] operation = "restart" /\ service = "exporter" -> "snap restart mysqld-exporter"
      [] OTHER -> "none"

\* the state of a service after an operation on it
SnapActiveAfter(operation, active, out) ==
    IF out # "done" THEN active ELSE operation # "stop"

\* lines 800, 803, 806: services[service]["active"] for restart and start,
\* its negation for stop
SnapServiceReturnsActive(operation, active) ==
    IF active THEN "True" ELSE "False"

SnapServiceReturns(operation, active) ==
    IF (IF operation = "stop" THEN ~active ELSE active) THEN "True" ELSE "False"

\* snap_service_operation(snapname, service, operation) is called: lines
\* 788-805, up to the operation on the snap
CallSnapServiceOperation ==
    /\ pc = "idle"
    /\ lastOp' = "snap_service_operation"
    /\ elapsed' = 0 /\ attemptNo' = 0 /\ lastOutcome' = "none" /\ sockSeen' = FALSE
    /\ \E operation \in OperationNames, service \in Services, rc \in ExitCodes :
         LET out == SnapServiceOperation(operation, snapPresent, rc)
         IN  /\ snapCall' = [operation |-> operation, service |-> service]
             /\ log' = IF SnapServiceIssues(operation, snapPresent)
                       THEN << Cmd(SnapCommand(operation, service), AmbientIdentity, rc) >>
                       ELSE << >>
             /\ mysqldActive' = IF service = "mysqld"
                                THEN SnapActiveAfter(operation, mysqldActive, out)
                                ELSE mysqldActive
             /\ exporterActive' = IF service = "exporter"
                                  THEN SnapActiveAfter(operation, exporterActive, out)
                                  ELSE exporterActive
             /\ svcEnabled' = SnapEnabledAfter(operation, service, svcEnabled, out)
             /\ IF out = "done"
                THEN pc' = "so_read" /\ result' = "none" /\ cause' = "none"
                ELSE /\ Finish(out)
                     /\ cause' = IF SnapServiceIssues(operation, snapPresent)
                                 THEN "SnapError" ELSE out
    /\ UNCHANGED << hostVars, checkPort, dataDirListing, installVars, exporterCreds,
                    fileVars, backupDir, procOut, execValue >>

\* lines 800, 803, 806: the service's active state is read and returned
SnapServiceRead ==
    /\ pc = "so_read"
    /\ Finish(SnapServiceReturns(snapCall.operation,
                                 IF snapCall.service = "mysqld"
                                 THEN mysqldActive ELSE exporterActive))
    /\ UNCHANGED << lastOp, log, cause, hostVars, retryVars, otherVars >>

\* a service that is active exits on its own
EnvServiceExit ==
    /\ mysqldActive \/ exporterActive
    /\ \E service \in Services :
         /\ IF service = "mysqld" THEN mysqldActive ELSE exporterActive
         /\ mysqldActive' = (mysqldActive /\ service # "mysqld")
         /\ exporterActive' = (exporterActive /\ service # "exporter")
    /\ UNCHANGED << pc, lastOp, result, log, cause, hostVars, retryVars,
                    dataDirListing, installVars, exporterCreds, svcEnabled,
                    fileVars, execVars >>

InstallNext ==
    \/ CallInstall
    \/ InstallCheckPrecondition
    \/ InstallEnsure
    \/ InstallHold
    \/ InstallCommonDir
    \/ InstallChown
    \/ InstallAlias
    \/ InstallTouch
    \/ CallConnectMysqlExporter
    \/ ExporterSet
    \/ ExporterStart
    \/ CallStopMysqlExporter
    \/ ExporterStop
    \/ RestartMysqlExporter

InstallSpec == Init /\ [][InstallNext]_vars

(***************************************************************************)
(* First boot: reset_root_password_and_start_mysqld                        *)
(***************************************************************************)

\* a NamedTemporaryFile when its with block is left, normally or by an
\* exception: the file is deleted
TempFileKept(f) == f

TempFileOnExit(f) == "absent"

\* the except clauses of lines 301, 318, 327 and 333
ResetErrorUnconverted(exc) == exc

ResetError(exc) ==
    IF exc \in {"CalledProcessError", "SnapServiceOperationError",
                "MySQLServiceNotRunningError"}
    THEN "MySQLResetRootPasswordAndStartMySQLDError"
    ELSE exc

\* line 332: wait_until_mysql_connection(check_port=False)
ResetCheckPortEnabled == TRUE

ResetCheckPort == FALSE

\* the call ends with exc raised (or "none"): both with blocks are left
ResetLeave(exc) ==
    /\ Finish(IF exc = "none" THEN "returned" ELSE ResetError(exc))
    /\ cause' = exc
    /\ sqlFile' = TempFileOnExit(sqlFile)
    /\ cnfFile' = TempFileOnExit(cnfFile)

\* what no step of the first boot touches
resetFrame == << lastOp, hostVars, dataDirListing, installVars, exporterActive,
                 exporterCreds, execVars >>

\* reset_root_password_and_start_mysqld() is called: lines 272-290 create both
\* temporary files and write the SQL file
CallResetRootPassword ==
    /\ Begin("reset_root_password_and_start_mysqld", "rr_chown_sql")
    /\ cnfFile' = "created"
    /\ sqlFile' = "written"
    /\ UNCHANGED << hostVars, checkPort, dataDirListing, installVars, svcVars,
                    execVars >>

\* lines 292-307: chown of the SQL file, then the config fragment is written
ResetChownSql ==
    /\ pc = "rr_chown_sql"
    /\ \E rc \in ExitCodes :
         /\ log' = Append(log, Cmd("sudo chown sql", AmbientIdentity, rc))
         /\ IF SubprocessRun(TRUE, rc) = "completed"
            THEN /\ pc' = "rr_chown_cnf" /\ result' = "none" /\ cause' = "none"
                 /\ sqlFile' = "chowned"
                 /\ cnfFile' = "written"
            ELSE ResetLeave("CalledProcessError")
    /\ UNCHANGED << resetFrame, retryVars, mysqldActive, svcEnabled >>

\* lines 309-321: chown of the config fragment
ResetChownCnf ==
    /\ pc = "rr_chown_cnf"
    /\ \E rc \in ExitCodes :
         /\ log' = Append(log, Cmd("sudo chown cnf", AmbientIdentity, rc))
         /\ IF SubprocessRun(TRUE, rc) = "completed"
            THEN /\ pc' = "rr_start" /\ result' = "none" /\ cause' = "none"
                 /\ cnfFile' = "chowned"
                 /\ sqlFile' = sqlFile
            ELSE ResetLeave("CalledProcessError")
    /\ UNCHANGED << resetFrame, retryVars, mysqldActive, svcEnabled >>

\* lines 323-332: snap_service_operation(..., "start"), then the wait begins
ResetStart ==
    /\ pc = "rr_start"
    /\ \E rc \in ExitCodes :
         LET out == SnapServiceOperation("start", snapPresent, rc)
         IN  /\ log' = IF SnapServiceIssues("start", snapPresent)
                       THEN Append(log, Cmd("snap start mysqld", AmbientIdentity, rc))
                       ELSE log
             /\ mysqldActive' = (mysqldActive \/ out = "done")
             /\ svcEnabled' = SnapEnabledAfter("start", "mysqld", svcEnabled, out)
             /\ IF out = "done"
                THEN /\ pc' = "wait_attempt" /\ result' = "none" /\ cause' = "none"
                     /\ checkPort' = ResetCheckPort
                     /\ UNCHANGED fileVars
                ELSE ResetLeave(out) /\ checkPort' = checkPort
    /\ UNCHANGED << resetFrame, elapsed, attemptNo, lastOutcome, sockSeen >>

\* lines 333-334: the wait has returned or raised; the with blocks are left
ResetAfterWait ==
    /\ pc = "rr_after_wait"
    /\ ResetLeave(cause)
    /\ UNCHANGED << resetFrame, retryVars, mysqldActive, svcEnabled, log >>

(***************************************************************************)
(* stop_mysqld, start_mysqld, restart_mysqld                               *)
(***************************************************************************)

\* the except clause of lines 543-544
StopError(exc) ==
    IF exc = "SnapServiceOperationError" THEN "MySQLStopMySQLDError" ELSE exc

\* the except clause of lines 555-562
StartErrorUnconverted(exc) == exc

StartError(exc) ==
    IF exc \in {"MySQLServiceNotRunningError", "SnapServiceOperationError"}
    THEN "MySQLStartMySQLDError"
    ELSE exc

\* line 554: wait_until_mysql_connection() with the default check_port=True
StartCheckPortDisabled == FALSE

StartCheckPort == TRUE

\* restart_mysqld (lines 566-567): what follows a stop that returned
RestartContinues(op) == op = "restart_mysqld"

\* what no step of stop, start and restart touches
serviceFrame == << lastOp, hostVars, dataDirListing, installVars, exporterActive,
                   exporterCreds, fileVars, execVars >>

CallStopMysqld ==
    /\ Begin("stop_mysqld", "st_stop")
    /\ UNCHANGED << hostVars, checkPort, otherVars >>

CallStartMysqld ==
    /\ Begin("start_mysqld", "sm_start")
    /\ UNCHANGED << hostVars, checkPort, otherVars >>

CallRestartMysqld ==
    /\ Begin("restart_mysqld", "st_stop")
    /\ UNCHANGED << hostVars, checkPort, otherVars >>

\* line 542: snap_service_operation(..., "stop")
StopMysqld ==
    /\ pc = "st_stop"
    /\ \E rc \in ExitCodes :
         LET out == SnapServiceOperation("stop", snapPresent, rc)
         IN  /\ log' = IF SnapServiceIssues("stop", snapPresent)
                       THEN Append(log, Cmd("snap stop mysqld", AmbientIdentity, rc))
                       ELSE log
             /\ mysqldActive' = (mysqldActive /\ out # "done")
             /\ svcEnabled' = SnapEnabledAfter("stop", "mysqld", svcEnabled, out)
             /\ IF out # "done"
                THEN Finish(StopError(out)) /\ cause' = out
                ELSE IF RestartContinues(lastOp)
                     THEN pc' = "sm_start" /\ result' = "none" /\ cause' = "none"
                     ELSE Finish("returned") /\ cause' = "none"
    /\ UNCHANGED << serviceFrame, retryVars >>

\* lines 553-554: snap_service_operation(..., "start"), then the wait begins
\* with the port check on (the default of check_port)
StartMysqld ==
    /\ pc = "sm_start"
    /\ \E rc \in ExitCodes :
         LET out == SnapServiceOperation("start", snapPresent, rc)
         IN  /\ log' = IF SnapServiceIssues("start", snapPresent)
                       THEN Append(log, Cmd("snap start mysqld", AmbientIdentity, rc))
                       ELSE log
             /\ mysqldActive' = (mysqldActive \/ out = "done")
             /\ svcEnabled' = SnapEnabledAfter("start", "mysqld", svcEnabled, out)
             /\ IF out = "done"
                THEN /\ pc' = "wait_attempt" /\ result' = "none" /\ cause' = "none"
                     /\ checkPort' = StartCheckPort
                ELSE Finish(StartError(out)) /\ cause' = out /\ checkPort' = checkPort
    /\ UNCHANGED << serviceFrame, elapsed, attemptNo, lastOutcome, sockSeen >>

\* lines 555-562: the wait has returned or raised
StartAfterWait ==
    /\ pc = "sm_after_wait"
    /\ Finish(IF cause = "none" THEN "returned" ELSE StartError(cause))
    /\ UNCHANGED << serviceFrame, cause, retryVars, mysqldActive, svcEnabled, log >>

(***************************************************************************)
(* flush_host_cache                                                        *)
(***************************************************************************)

\* MySQL.is_mysqld_running: the socket file exists
IsMysqldRunningAlways(sock) == TRUE

IsMysqldRunning(sock) == sock

\* MySQL._run_mysqlcli_script: subprocess.check_output, CalledProcessError
\* converted to MySQLClientError
RunMysqlcliScript(rc) ==
    IF SubprocessRun(TRUE, rc) = "completed" THEN "completed" ELSE "MySQLClientError"

\* the except clause of lines 583-585
FlushError(exc) ==
    IF exc = "MySQLClientError" THEN "MySQLFlushHostCacheError" ELSE exc

\* flush_host_cache() is called and returns or raises
FlushHostCache ==
    /\ pc = "idle"
    /\ pc' = "idle"
    /\ lastOp' = "flush_host_cache"
    /\ elapsed' = 0 /\ attemptNo' = 0 /\ lastOutcome' = "none" /\ sockSeen' = FALSE
    /\ IF ~IsMysqldRunning(sockFile)
       THEN log' = << >> /\ result' = "returned" /\ cause' = "none"
       ELSE \E rc \in ExitCodes :
            /\ log' = << Cmd("mysql -e TRUNCATE host_cache", AmbientIdentity, rc) >>
            /\ cause' = IF RunMysqlcliScript(rc) = "completed"
                        THEN "none" ELSE RunMysqlcliScript(rc)
            /\ result' = IF cause' = "none" THEN "returned" ELSE FlushError(cause')
    /\ UNCHANGED << hostVars, checkPort, otherVars >>

\* a host before or after a successful installation
LifecycleInit ==
    /\ CallInit
    /\ DataInit
    /\ dataDirListing = [exists |-> TRUE, names |-> ExpectedContent]
    /\ NoOutput
    /\ NotInstalled \/ Installed

LifecycleNext ==
    \/ CallResetRootPassword
    \/ ResetChownSql
    \/ ResetChownCnf
    \/ ResetStart
    \/ ResetAfterWait
    \/ CallStopMysqld
    \/ CallStartMysqld
    \/ CallRestartMysqld
    \/ StopMysqld
    \/ StartMysqld
    \/ StartAfterWait
    \/ FlushHostCache
    \/ WaitAttempt
    \/ WaitSleep
    \/ EnvSocket
    \/ EnvAdminConn

LifecycleSpec == LifecycleInit /\ [][LifecycleNext]_vars

\* snap_service_operation called on its own, on a host before or after a
\* successful installation
SnapNext ==
    \/ CallSnapServiceOperation
    \/ SnapServiceRead
    \/ EnvServiceExit

SnapSpec == LifecycleInit /\ [][SnapNext]_vars

\* every operation of the module
Next ==
    \/ PipelineNext
    \/ ServiceNext
    \/ DataDirNext
    \/ InstallNext
    \/ LifecycleNext
    \/ StagingNext
    \/ ExecNext
    \/ SnapNext

Spec == Init /\ [][Next]_vars

(***************************************************************************)
(* Properties of restore_backup and of the pipeline's stage order          *)
(***************************************************************************)

\* what the current call has issued so far
Issued(name)    == \E i \in 1..Len(log) : log[i].cmd = name
Succeeded(name) == \E i \in 1..Len(log) : log[i].cmd = name /\ log[i].rc = 0
Failed(name)    == \E i \in 1..Len(log) : log[i].cmd = name /\ log[i].rc # 0
Names(l)        == [i \in 1..Len(l) |-> l[i].cmd]

InRestore       == lastOp = "restore_backup"
RestoreFinished == InRestore /\ pc = "idle"

\* C1: when chmod 770 exits non-zero, restore_backup fails with
\* MySQLRestoreBackupError and the restore command is never executed.
C1_RelaxFailureIsFatal ==
    (InRestore /\ Failed("chmod 770")) =>
        /\ pc = "idle"
        /\ result = "MySQLRestoreBackupError"
        /\ ~Issued("xtrabackup --move-back")

\* C2: after a successful restore command, when chmod 750 or chown -R exits
\* non-zero, restore_backup fails with MySQLRestoreBackupError and never
\* returns (stdout, stderr) normally.
C2_RevertFailureIsFatal ==
    (RestoreFinished /\ Succeeded("xtrabackup --move-back")
        /\ (Failed("chmod 750") \/ Failed("chown -R snap_daemon:root"))) =>
        result = "MySQLRestoreBackupError"

\* C3: every restore_backup that relaxed the data directory mode leaves it
\* restrictive (750) when it finishes, by return or by error.
C3_RelaxedModeAlwaysReverted ==
    (RestoreFinished /\ Succeeded("chmod 770")) => dataDirMode = ModeRestrictive

\* C4: when the restore command fails, its error propagates out of
\* restore_backup, neither chmod 750 nor chown -R is attempted, and the data
\* directory is left in the relaxed mode.
C4_RestoreFailureLeavesRelaxed ==
    (InRestore /\ Failed("xtrabackup --move-back")) =>
        /\ pc = "idle"
        /\ result = "MySQLRestoreBackupError"
        /\ ~Issued("chmod 750")
        /\ ~Issued("chown -R snap_daemon:root")
        /\ dataDirMode = ModeRelaxed

\* C5: a restore_backup call that returns normally has issued exactly chmod
\* 770, the restore command, chmod 750, chown -R snap_daemon:root, in this
\* order.
C5_RestoreCommandOrder ==
    (RestoreFinished /\ result = "returned") =>
        Names(log) = << "chmod 770", "xtrabackup --move-back", "chmod 750",
                        "chown -R snap_daemon:root" >>

C5_Witness ==
    /\ RestoreFinished
    /\ result = "returned"
    /\ Len(log) = 4
    /\ \A i \in 1..Len(log) : log[i].rc = 0

\* C6: the first command of prepare_backup_for_restore is issued only when
\* the Downloaded staging state exists, and the first command of
\* restore_backup only when the Prepared staging state exists.
C6_StageOrderEnforced ==
    [][ (log = << >> \/ pc = "idle") /\ log' # << >> /\ log' # log =>
          /\ (lastOp' = "prepare_backup_for_restore" => stage = "Downloaded")
          /\ (lastOp' = "restore_backup" => stage = "Prepared") ]_vars

\* C10: is_volume_mounted probes at most 10 times, no probe follows a
\* successful one, it returns True exactly when its last probe succeeded,
\* False only after 10 failed probes, and it never raises.
C10_VolumeMountedBounded ==
    lastOp = "is_volume_mounted" =>
        /\ Len(log) <= MountAttempts
        /\ Len(log) = attemptNo
        /\ \A i \in 1..(Len(log) - 1) : log[i].rc # 0
        /\ (Len(log) > 0 /\ log[Len(log)].rc = 0) => (pc = "idle" /\ result = "True")
        /\ Len(log) = MountAttempts => pc = "idle"
        /\ pc = "idle" =>
            /\ result \in {"True", "False"}
            /\ result = "False" <=>
                 (Len(log) = MountAttempts /\ \A i \in 1..Len(log) : log[i].rc # 0)

C10_Witness ==
    /\ lastOp = "is_volume_mounted"
    /\ pc = "idle"
    /\ result = "False"
    /\ Len(log) = MountAttempts

(***************************************************************************)
(* Properties of the readiness wait                                        *)
(***************************************************************************)

InWait       == lastOp = "wait_until_mysql_connection"
WaitFinished == InWait /\ pc = "idle"

\* a step that is one attempt of the wait
AttemptStep == pc = "wait_attempt" /\ attemptNo' = attemptNo + 1

\* C7: an attempt that finds the socket file absent ends the wait with
\* MySQLServiceNotRunningError, and no further attempt is made.
C7_FailFastOnAbsentSocket ==
    (InWait /\ lastOutcome = "socket_absent") =>
        (pc = "idle" /\ result = "MySQLServiceNotRunningError")

\* C7 as amended: an attempt that finds the socket file absent ends the wait
\* with MySQLServiceNotRunningError only when the deadline has elapsed by the
\* end of that attempt; before the deadline the wait goes on, and the next
\* attempt is made after the interval.
C7_AbsentSocketRetriedUntilDeadline ==
    [][ /\ (AttemptStep /\ ~sockFile) =>
              IF elapsed' >= WaitDeadline
              THEN pc' = "idle" /\ result' = "MySQLServiceNotRunningError"
              ELSE pc' = "wait_sleep" /\ result' = "none"
        /\ (pc = "wait_sleep" /\ lastOutcome = "socket_absent" /\ pc' # pc) =>
              (pc' = "wait_attempt" /\ attemptNo' = attemptNo) ]_vars

C7_Witness ==
    /\ WaitFinished
    /\ result = "MySQLServiceNotRunningError"
    /\ lastOutcome = "socket_absent"
    /\ attemptNo > 1

\* C8: the wait returns normally only from an attempt that found the socket
\* file present and, under check_port, the administrative connection
\* possible; a wait none of whose attempts found the socket file ends with
\* MySQLServiceNotRunningError.
C8_SuccessNeedsSocketAndProbe ==
    /\ [][ (AttemptStep /\ result' = "returned") =>
              (sockFile /\ (checkPort => adminConn)) ]_vars
    /\ [](WaitFinished => result \in {"returned", "MySQLServiceNotRunningError"})
    /\ []((WaitFinished /\ ~sockSeen) => result = "MySQLServiceNotRunningError")

C8_Witness ==
    /\ WaitFinished
    /\ result = "returned"
    /\ checkPort
    /\ attemptNo > 1
    /\ sockFile /\ adminConn

\* C9: the wait is a deadline retry: an attempt that succeeds returns at
\* once, a failed attempt is followed 5 units later by the next one as long
\* as fewer than 120 units have elapsed, no attempt is scheduled once 120
\* have elapsed, every wait ends, and on expiry the error is the last
\* attempt's own MySQLServiceNotRunningError, never RetryError.
C9_DeadlineRetry ==
    /\ ((InWait /\ pc # "idle") ~> (pc = "idle"))
    /\ [][ (AttemptStep /\ sockFile /\ (checkPort => adminConn)) =>
              (pc' = "idle" /\ result' = "returned") ]_vars
    /\ [][ (InWait /\ pc = "wait_sleep" /\ pc' # pc) =>
              (pc' = "wait_attempt" /\ elapsed' = elapsed + WaitInterval) ]_vars
    /\ []((InWait /\ pc = "wait_sleep") =>
              (elapsed < WaitDeadline /\ lastOutcome # "ok"))
    /\ [](InWait => attemptNo <= (WaitDeadline \div WaitInterval) + 1)
    /\ [](WaitFinished =>
              /\ result # "RetryError"
              /\ result = "MySQLServiceNotRunningError" =>
                    (elapsed >= WaitDeadline /\ lastOutcome # "ok"))

C9_Witness ==
    /\ WaitFinished
    /\ result = "MySQLServiceNotRunningError"
    /\ lastOutcome = "probe_failed"
    /\ attemptNo = (WaitDeadline \div WaitInterval) + 1

(***************************************************************************)
(* Properties of is_data_dir_initialised                                   *)
(***************************************************************************)

\* C11: is_data_dir_initialised returns True exactly when the data directory
\* exists and every required name is in its listing (extra names allowed);
\* it returns False, and never raises, for a listing that misses a required
\* name and for a directory that does not exist.
C11_InitialisedIffAllRequired ==
    lastOp = "is_data_dir_initialised" =>
        /\ result \in {"True", "False"}
        /\ result = "True" <=>
              /\ dataDirListing.exists
              /\ \A n \in ExpectedContent : n \in dataDirListing.names

C11_Witness ==
    /\ lastOp = "is_data_dir_initialised"
    /\ result = "True"
    /\ dataDirListing.names \ ExpectedContent # {}

(***************************************************************************)
(* Properties of the installation                                          *)
(***************************************************************************)

InInstall       == lastOp = "install_and_configure_mysql_dependencies"
InstallFinished == InInstall /\ pc = "idle"

\* the call failed inside the try block of lines 163-196
InstallFailedInTry == InstallFinished /\ result \notin {"returned", "Exception"}

\* C15: install_and_configure_mysql_dependencies called with the snap present
\* and the marker file absent fails, and it changes nothing: no command is
\* issued, and package, hold, common directory, alias and marker stay as
\* they were.
C15_ForeignSnapRejected ==
    /\ [][ (pc = "in_precondition" /\ snapPresent /\ ~markerFile) =>
             /\ pc' = "idle"
             /\ result' = "Exception"
             /\ log' = << >>
             /\ UNCHANGED installVars ]_vars
    /\ [](InstallFinished /\ result = "Exception" =>
             log = << >> /\ snapPresent /\ ~markerFile)

C15_Witness ==
    /\ InstallFinished
    /\ result = "Exception"
    /\ snapPresent
    /\ ~markerFile
    /\ ~aliasSet

\* C16: from a host without the snap, a successful install leaves the marker
\* file (with the snap present and held); a call made once the marker exists
\* never raises the already-installed error, issues no install and no hold,
\* leaves package, hold and marker as they were, and fails only when a
\* command it issued failed.
C16_InstallIdempotent ==
    /\ [](InstallFinished /\ result = "returned" =>
             markerFile /\ snapPresent /\ snapHeld)
    /\ [](markerFile => snapPresent /\ snapHeld)
    /\ [][ (markerFile /\ InInstall /\ lastOp' = lastOp) =>
             /\ result' # "Exception"
             /\ snapPresent' /\ snapHeld' /\ markerFile'
             /\ (Len(log') > Len(log) =>
                   log'[Len(log')].cmd \notin {"snap install", "snap refresh --hold"})
             /\ (pc # "idle" /\ pc' = "idle" /\ result' # "returned" =>
                   Len(log') > 0 /\ log'[Len(log')].rc # 0) ]_vars

\* a second call has returned: it found the snap present and installed nothing
C16_Witness ==
    /\ InstallFinished
    /\ result = "returned"
    /\ ~Issued("snap install")
    /\ ~Issued("snap refresh --hold")
    /\ markerFile

\* the steps of the try block stop at the step that raises, and none is run
\* twice (the exit status of os.system is not read, so the ownership fix
\* raises nothing)
InstallStopsAtFailure ==
    InInstall =>
        /\ \A i \in 1..Len(log) :
              (log[i].rc # 0 /\ log[i].cmd # "chown -R common") =>
                  /\ i = Len(log)
                  /\ pc = "idle"
                  /\ result \notin {"returned", "none"}
        /\ \A i, j \in 1..Len(log) : log[i].cmd = log[j].cmd => i = j

InExporterConnect == lastOp = "connect_mysql_exporter"

InReset       == lastOp = "reset_root_password_and_start_mysqld"
ResetFinished == InReset /\ pc = "idle"
ResetWaiting  == InReset /\ pc \in {"wait_attempt", "wait_sleep"}

\* C12: once reset_root_password_and_start_mysqld has finished, by success or
\* by a chown, start or readiness failure, neither the SQL file nor the config
\* fragment it created remains on disk.
C12_TempFilesRemoved ==
    /\ ResetFinished => (sqlFile = "absent" /\ cnfFile = "absent")
    /\ (InReset /\ pc # "idle") => (sqlFile # "absent" /\ cnfFile # "absent")

C12_Witness ==
    /\ ResetFinished
    /\ result = "MySQLResetRootPasswordAndStartMySQLDError"
    /\ cause = "MySQLServiceNotRunningError"
    /\ sqlFile = "absent"
    /\ cnfFile = "absent"

\* C13: the service start is issued only after both files have been written
\* and chowned; the wait that follows runs with the port check off, so the
\* first boot succeeds as soon as an attempt finds the socket file, whether or
\* not the administrative connection is possible.
C13_StartAfterFilesThenSocketOnlyWait ==
    InReset =>
        /\ (pc = "rr_start" \/ Issued("snap start mysqld")) =>
              /\ Len(log) >= 2
              /\ log[1] = Cmd("sudo chown sql", AmbientIdentity, 0)
              /\ log[2] = Cmd("sudo chown cnf", AmbientIdentity, 0)
        /\ (pc = "rr_start" \/ ResetWaiting) =>
              (sqlFile = "chowned" /\ cnfFile = "chowned")
        /\ ResetWaiting => ~checkPort
        /\ lastOutcome # "probe_failed"
        /\ sockSeen =>
              /\ pc \in {"rr_after_wait", "idle"}
              /\ cause = "none"
              /\ pc = "idle" => result = "returned"

\* the first boot has succeeded with the administrative connection impossible
C13_Witness ==
    /\ ResetFinished
    /\ result = "returned"
    /\ sockSeen
    /\ ~adminConn
    /\ attemptNo > 1

\* C14: every failure inside reset_root_password_and_start_mysqld (a chown,
\* the start, the wait) ends the call with
\* MySQLResetRootPasswordAndStartMySQLDError; each chown and the start are
\* executed at most once in a call, and after a failed chown the start is
\* never issued.
C14_ResetFailuresWrapped ==
    InReset =>
        /\ (ResetFinished /\ result # "returned") =>
              /\ result = "MySQLResetRootPasswordAndStartMySQLDError"
              /\ cause \in {"CalledProcessError", "SnapServiceOperationError",
                            "MySQLServiceNotRunningError"}
        /\ \A i \in 1..Len(log) : log[i].rc # 0 =>
              /\ i = Len(log)
              /\ ResetFinished
              /\ result = "MySQLResetRootPasswordAndStartMySQLDError"
        /\ \A i, j \in 1..Len(log) : log[i].cmd = log[j].cmd => i = j
        /\ (Failed("sudo chown sql") \/ Failed("sudo chown cnf")) =>
              ~Issued("snap start mysqld")

C14_Witness ==
    /\ ResetFinished
    /\ Failed("sudo chown cnf")
    /\ result = "MySQLResetRootPasswordAndStartMySQLDError"
    /\ ~mysqldActive

(***************************************************************************)
(* Properties of restart_mysqld and flush_host_cache                       *)
(***************************************************************************)

InRestart       == lastOp = "restart_mysqld"
RestartFinished == InRestart /\ pc = "idle"

\* stop then start, the start only after a stop that succeeded; a failed stop
\* is MySQLStopMySQLDError and a failed start MySQLStartMySQLDError; neither
\* is issued twice
RestartOrder ==
    InRestart =>
        /\ (pc = "sm_start" \/ Issued("snap start mysqld")) =>
              (Len(log) >= 1 /\ log[1] = Cmd("snap stop mysqld", AmbientIdentity, 0))
        /\ Failed("snap stop mysqld") =>
              /\ pc = "idle"
              /\ result = "MySQLStopMySQLDError"
              /\ ~Issued("snap start mysqld")
        /\ (RestartFinished /\ Succeeded("snap stop mysqld")
              /\ result # "returned") => result = "MySQLStartMySQLDError"
        /\ \A i, j \in 1..Len(log) : log[i].cmd = log[j].cmd => i = j

FlushStep ==
    /\ pc = "idle"
    /\ pc' = "idle"
    /\ lastOp' = "flush_host_cache"
    /\ sockFile' = sockFile
    /\ adminConn' = adminConn

\* C19: flush_host_cache returns normally and issues no statement when the
\* socket file is absent; when it is present the truncation statement is
\* issued exactly once, and its failure is MySQLFlushHostCacheError.
C19_FlushOnlyWhenRunning ==
    [][ FlushStep =>
          IF ~sockFile
          THEN log' = << >> /\ result' = "returned"
          ELSE /\ Len(log') = 1
               /\ log'[1].cmd = "mysql -e TRUNCATE host_cache"
               /\ result' = IF log'[1].rc = 0
                             THEN "returned" ELSE "MySQLFlushHostCacheError" ]_vars

C19_Witness ==
    /\ lastOp = "flush_host_cache"
    /\ result = "MySQLFlushHostCacheError"
    /\ Failed("mysql -e TRUNCATE host_cache")

InExporterStop    == lastOp = "stop_mysql_exporter"
InExporterRestart == lastOp = "restart_mysql_exporter"

\* C21: a failed start of the exporter service inside connect_mysql_exporter,
\* and a failed stop inside stop_mysql_exporter, reach the caller as
\* MySQLExporterConnectError, never as a raw service-manager error.
C21_ExporterFailuresWrapped ==
    /\ (InExporterConnect /\ pc = "idle" /\ Failed("snap start mysqld-exporter")) =>
          result = "MySQLExporterConnectError"
    /\ (InExporterStop /\ pc = "idle" /\ result # "returned") =>
          result = "MySQLExporterConnectError"

\* C22: restart_mysql_exporter stops the exporter service, then sets the
\* credentials and starts it: a call on an installed snap issues the stop, and
\* a call that returned has issued the stop and after it the start.
C22_RestartStopsThenStarts ==
    (InExporterRestart /\ pc = "idle" /\ snapPresent) =>
        /\ Issued("snap stop mysqld-exporter")
        /\ result = "returned" =>
              \E i, j \in 1..Len(log) :
                  /\ i < j
                  /\ log[i].cmd = "snap stop mysqld-exporter"
                  /\ log[j].cmd = "snap start mysqld-exporter"

(***************************************************************************)
(* Properties of the command executor                                      *)
(***************************************************************************)

InExec == lastOp = "_execute_commands"

\* v is s without its surrounding whitespace: a stretch of s that neither
\* begins nor ends with whitespace, with only whitespace outside it
IsStripped(s, v) ==
    \E i \in 1..(Len(s) + 1), j \in 0..Len(s) :
        /\ v = SubSeq(s, i, j)
        /\ \A k \in 1..Len(s) : (k < i \/ k > j) => s[k] \in Whitespace
        /\ v # << >> => (v[1] \notin Whitespace /\ v[Len(v)] \notin Whitespace)

\* C23: _execute_commands runs the command exactly once; on exit code zero it
\* returns the captured stdout and stderr without their surrounding
\* whitespace, and on a non-zero exit code it raises MySQLExecError carrying
\* the captured stderr.
C23_ExecuteOnceStrippedOrError ==
    InExec =>
        /\ Len(log) = 1
        /\ log[1].rc = 0 =>
              /\ result = "returned"
              /\ Len(execValue) = 2
              /\ IsStripped(procOut.stdout, execValue[1])
              /\ IsStripped(procOut.stderr, execValue[2])
        /\ log[1].rc # 0 =>
              /\ result = "MySQLExecError"
              /\ execValue = << procOut.stderr >>

C23_Witness ==
    /\ InExec
    /\ result = "returned"
    /\ execValue[1] # << >>
    /\ Len(execValue[1]) + 2 = Len(procOut.stdout)
    /\ execValue[2] # procOut.stderr

(***************************************************************************)
(* Properties of staging cleanup and of the pipeline's identity            *)
(***************************************************************************)

\* a step that is one call of the cleanup operation op
CleanupStep(op) == pc = "idle" /\ pc' = "idle" /\ lastOp' = op

\* C24: delete_temp_restore_directory and delete_temp_backup_directory are
\* idempotent against absence: a call that succeeded leaves the staging
\* directory absent, and a call made when it is absent does not fail and
\* leaves the state as it was.
C24_CleanupIdempotent ==
    /\ [](lastOp = "delete_temp_restore_directory" /\ result = "returned" =>
             stage = "None")
    /\ [](lastOp = "delete_temp_backup_directory" /\ result = "returned" =>
             ~backupDir)
    /\ [][ (CleanupStep("delete_temp_restore_directory") /\ stage = "None") =>
             /\ result' = "returned"
             /\ stage' = "None"
             /\ UNCHANGED << dataVars, backupDir, dataDirListing >> ]_vars
    /\ [][ (CleanupStep("delete_temp_backup_directory") /\ ~backupDir) =>
             /\ result' = "returned"
             /\ ~backupDir'
             /\ UNCHANGED << dataVars, dataDirListing >> ]_vars

\* the restore staging directory was deleted after a restore
C24_Witness ==
    /\ lastOp = "delete_temp_restore_directory"
    /\ result = "returned"
    /\ stage = "None"
    /\ dataDirOwner = ROOT_SYSTEM_USER

PipelineOps ==
    { "execute_backup_commands", "delete_temp_backup_directory",
      "retrieve_backup_with_xbcloud", "prepare_backup_for_restore",
      "empty_data_files", "restore_backup", "delete_temp_restore_directory" }

\* C25: every command issued by an operation of the backup/restore pipeline
\* runs as user root and group root, never as the service account or under
\* the caller's own identity.
C25_PipelineRunsAsRoot ==
    lastOp \in PipelineOps =>
        \A i \in 1..Len(log) :
            log[i].user = ROOT_SYSTEM_USER /\ log[i].group = ROOT_SYSTEM_USER

C25_Witness ==
    /\ lastOp = "restore_backup"
    /\ Len(log) = 4
    /\ backupDir
    /\ dataDirListing.names = {}

(***************************************************************************)
(* Properties of start_mysqld and stop_mysqld                              *)
(***************************************************************************)

InStart == lastOp = "start_mysqld"
InStop  == lastOp = "stop_mysqld"

\* C26: start_mysqld issues the service start and then the readiness wait
\* with the port check on; it returns only when the start was issued without
\* error and the wait succeeded; a service-manager failure and a readiness
\* failure both reach the caller as MySQLStartMySQLDError, and stop_mysqld
\* reports a service-manager failure as MySQLStopMySQLDError.
C26_StartStopErrors ==
    /\ InStart =>
          /\ pc \in {"wait_attempt", "wait_sleep", "sm_after_wait"} =>
                /\ checkPort
                /\ log = << Cmd("snap start mysqld", AmbientIdentity, 0) >>
          /\ (pc = "idle" /\ result = "returned") =>
                /\ Succeeded("snap start mysqld")
                /\ checkPort
                /\ lastOutcome = "ok"
          /\ (pc = "idle" /\ result # "returned") =>
                /\ result = "MySQLStartMySQLDError"
                /\ cause \in {"SnapServiceOperationError", "MySQLServiceNotRunningError"}
                /\ cause = "MySQLServiceNotRunningError" <=> Succeeded("snap start mysqld")
    /\ InStop =>
          /\ (pc = "idle" /\ result = "returned") => Succeeded("snap stop mysqld")
          /\ (pc = "idle" /\ result # "returned") =>
                /\ result = "MySQLStopMySQLDError"
                /\ cause = "SnapServiceOperationError"
                /\ ~Succeeded("snap stop mysqld")

\* start_mysqld failed on readiness: the socket was there, the probe failed
C26_Witness ==
    /\ InStart
    /\ pc = "idle"
    /\ result = "MySQLStartMySQLDError"
    /\ lastOutcome = "probe_failed"
    /\ Succeeded("snap start mysqld")

(***************************************************************************)
(* Properties of snap_service_operation                                    *)
(***************************************************************************)

InSnapOp == lastOp = "snap_service_operation"

\* the state of the service the call in progress is about
SnapCallActive == IF snapCall.service = "mysqld" THEN mysqldActive ELSE exporterActive

\* C27: snap_service_operation raises SnapServiceOperationError and issues
\* nothing when the operation is not restart, start or stop, or when the snap
\* is not present; otherwise it issues the operation once, a start enabling
\* the service on boot and a stop disabling it; a service-manager error
\* becomes SnapServiceOperationError; the boolean returned is true exactly
\* when the service's active state after the operation is the requested one.
C27_SnapServiceOperation ==
    /\ [](InSnapOp =>
          /\ (snapCall.operation \notin {"restart", "start", "stop"} \/ ~snapPresent) =>
                /\ pc = "idle"
                /\ result = "SnapServiceOperationError"
                /\ log = << >>
          /\ (snapCall.operation \in {"restart", "start", "stop"} /\ snapPresent) =>
                /\ Len(log) = 1
                /\ log[1].cmd = SnapCommand(snapCall.operation, snapCall.service)
                /\ log[1].rc # 0 =>
                      (pc = "idle" /\ result = "SnapServiceOperationError")
                /\ log[1].rc = 0 =>
                      /\ snapCall.operation = "start" => svcEnabled[snapCall.service]
                      /\ snapCall.operation = "stop" => ~svcEnabled[snapCall.service]
                      /\ pc = "idle" => result \in {"True", "False"})
    /\ [][ (InSnapOp /\ pc = "so_read" /\ pc' = "idle") =>
             (result' = "True" <=>
                 IF snapCall.operation = "stop" THEN ~SnapCallActive' ELSE SnapCallActive') ]_vars

\* a start that succeeded returned False: the service had exited again
C27_Witness ==
    /\ InSnapOp
    /\ pc = "idle"
    /\ snapCall.operation = "start"
    /\ result = "False"
    /\ svcEnabled[snapCall.service]

(***************************************************************************)
(* The install marker                                                      *)
(***************************************************************************)

\* C28: the marker file is written last: a call creates it only with the snap
\* present and held, the common directory there and owned by the service
\* account, and the alias registered; a call that fails creates no marker.
C28_MarkerWrittenLast ==
    /\ [][ (~markerFile /\ markerFile') =>
             /\ snapPresent
             /\ snapHeld
             /\ commonDir = MYSQL_SYSTEM_USER
             /\ aliasSet ]_vars
    /\ [][ (InInstall' /\ pc' = "idle" /\ result' # "returned") =>
             markerFile' = markerFile ]_vars

====
